---- MODULE Spec2Model ----
(***************************************************************************)
(* Model of the Blorb reader of src/main.rs: header validation, index      *)
(* parsing into a table of contents, and the per-entry seek/read/decode    *)
(* loop, over a byte-level archive and a single shared file cursor.        *)
(*                                                                         *)
(* Bytes are the naturals 0..255, a tag is a 4-tuple of bytes.  A 32-bit   *)
(* size is an ordinary integer; the archives of the model keep every size  *)
(* field below 2^31.  The one place where bit 31 matters, the BINA words,  *)
(* keeps the word as its sign bit and its lower 31 bits, which is exactly  *)
(* what the code extracts with its two masks.                              *)
(*                                                                         *)
(* File::read on a regular file is taken to deliver every byte that is     *)
(* left, up to the size of the buffer; the code ignores its result, so at  *)
(* end of file the rest of the buffer keeps its zero initialisation.       *)
(***************************************************************************)
EXTENDS Integers, Sequences, FiniteSets, TLC

\* ------------------------------------------------------------------ tags
FORM == <<70, 79, 82, 77>>
IFRS == <<73, 70, 82, 83>>
RIDX == <<82, 73, 100, 120>>

PICT == <<80, 105, 99, 116>>
EXEC == <<69, 120, 101, 99>>
SND_ == <<83, 110, 100, 32>>
DATA == <<68, 97, 116, 97>>

JPEG == <<74, 80, 69, 71>>
PNG_ == <<80, 78, 71, 32>>
RECT == <<82, 101, 99, 116>>

OGGV == <<79, 71, 71, 86>>
AIFF == <<65, 73, 70, 70>>
MOD_ == <<77, 79, 68, 32>>

TEXT == <<84, 69, 88, 84>>
BINA == <<66, 73, 78, 65>>

\* ------------------------------------------------------------ primitives
\* f.read(&mut buffer) with a zeroed buffer of n bytes and the cursor at p:
\* the bytes that are left fill the front of the buffer, the rest stays 0.
read(f, p, n) ==
  LET got == IF p >= Len(f) THEN 0
             ELSE IF Len(f) - p < n THEN Len(f) - p ELSE n
  IN [buf |-> [i \in 1..n |-> IF i <= got THEN f[p + i] ELSE 0],
      pos |-> p + got]

read_type(f, p) ==
  LET r == read(f, p, 4) IN [val |-> r.buf, pos |-> r.pos]

\* the four bytes occupy disjoint bit ranges, so the ORs add up
read_size(f, p) ==
  LET r == read(f, p, 4)
  IN [val |-> r.buf[1] * 16777216 + r.buf[2] * 65536
              + r.buf[3] * 256 + r.buf[4],
      pos |-> r.pos]

\* `*x as char` gives the character whose code point is the byte; the
\* String holds it in UTF-8, two bytes for a code point above 127.
Utf8(c) == IF c < 128 THEN <<c>> ELSE <<192 + (c \div 64), 128 + (c % 64)>>

\* a variant that builds the String with from_utf8_lossy: a byte that is
\* no UTF-8 on its own becomes U+FFFD
Utf8Lossy(c) == IF c < 128 THEN <<c>> ELSE <<239, 191, 189>>
invalid_resource_lossy(rsrc) ==
  [error |-> "InvalidResource",
   text |-> Utf8Lossy(rsrc[1]) \o Utf8Lossy(rsrc[2]) \o Utf8Lossy(rsrc[3])
            \o Utf8Lossy(rsrc[4])]

invalid_resource(rsrc) ==
  [error |-> "InvalidResource",
   text |-> Utf8(rsrc[1]) \o Utf8(rsrc[2]) \o Utf8(rsrc[3]) \o Utf8(rsrc[4])]

\* --------------------------------------------------------- index records
ChunkTypeOf(usage_id) ==
  CASE usage_id = PICT -> "Pict"
    [] usage_id = SND_ -> "Sound"
    [] usage_id = DATA -> "Data"
    [] usage_id = EXEC -> "Exec"

\* impl Display for ChunkType
DisplayChunkType(usage) ==
  CASE usage = "Pict" -> "'Pict'"
    [] usage = "Sound" -> "'Snd '"
    [] usage = "Data" -> "'Data'"
    [] usage = "Exec" -> "'Exec'"

\* impl Display for ChunkInfo: "[{number}: {usage} @{start}{loaded}]"
DisplayChunkInfo(t) ==
  <<t.number, DisplayChunkType(t.usage), t.start,
    IF t.data = <<>> THEN "" ELSE " (loaded)">>

\* a variant that takes the two fields of the record in the other order
read_resource_info_swapped(f, p) ==
  LET usage_id == read(f, p, 4)
      start == read_size(f, usage_id.pos)
      number == read_size(f, start.pos)
  IN IF usage_id.buf \in {PICT, SND_, DATA, EXEC}
     THEN [ok |-> TRUE,
           chunk |-> [usage |-> ChunkTypeOf(usage_id.buf),
                      number |-> number.val,
                      start |-> start.val,
                      data |-> <<>>],
           pos |-> number.pos]
     ELSE [ok |-> FALSE,
           err |-> invalid_resource(usage_id.buf),
           pos |-> usage_id.pos]

read_resource_info(f, p) ==
  LET usage_id == read(f, p, 4)
      number == read_size(f, usage_id.pos)
      start == read_size(f, number.pos)
  IN IF usage_id.buf \in {PICT, SND_, DATA, EXEC}
     THEN [ok |-> TRUE,
           chunk |-> [usage |-> ChunkTypeOf(usage_id.buf),
                      number |-> number.val,
                      start |-> start.val,
                      data |-> <<>>],
           pos |-> start.pos]
     ELSE [ok |-> FALSE,
           err |-> invalid_resource(usage_id.buf),
           pos |-> usage_id.pos]

\* -------------------------------------------------------------- decoders
Ok(v, p) == [outcome |-> "Ok", value |-> v, pos |-> p]
Err(e, p) == [outcome |-> "Err", value |-> e, pos |-> p]
Panic(why, p) == [outcome |-> "Panic", value |-> [panic |-> why], pos |-> p]

\* seek(SeekFrom::Start(offset)), read_type, read_size, then one read into
\* a zeroed buffer of chunk_len bytes: the common head of the three decoders
read_head(f, offset) ==
  LET chunk_type == read_type(f, offset)
      chunk_len == read_size(f, chunk_type.pos)
      data == read(f, chunk_len.pos, chunk_len.val)
  IN [chunk_type |-> chunk_type.val, chunk_len |-> chunk_len.val,
      data |-> data.buf, pos |-> data.pos]

read_pict(f, offset) ==
  LET h == read_head(f, offset)
      len == read_size(f, h.pos)
      width == read_size(f, len.pos)
      height == read_size(f, width.pos)
  IN CASE h.chunk_type = JPEG ->
            Ok([family |-> "Pict", variant |-> "Jpeg", data |-> h.data], h.pos)
       [] h.chunk_type = PNG_ ->
            Ok([family |-> "Pict", variant |-> "Png", data |-> h.data], h.pos)
       [] h.chunk_type = RECT ->
            IF len.val # 8
            THEN Panic("assert_eq", len.pos)
            ELSE Ok([family |-> "Pict", variant |-> "Rect",
                     width |-> width.val, height |-> height.val], height.pos)
       [] OTHER -> Panic("unimplemented", h.pos)

read_sound(f, offset) ==
  LET h == read_head(f, offset)
  IN CASE h.chunk_type = OGGV ->
            Ok([family |-> "Sound", variant |-> "Ogg", data |-> h.data], h.pos)
       [] h.chunk_type = MOD_ ->
            Ok([family |-> "Sound", variant |-> "Mod", data |-> h.data], h.pos)
       [] h.chunk_type = AIFF ->
            Ok([family |-> "Sound", variant |-> "Aiff", data |-> h.data], h.pos)
       [] OTHER -> Err(invalid_resource(h.chunk_type), h.pos)

\* data.chunks(4): consecutive slices of four bytes, the last one shorter
\* when the length is no multiple of 4
chunks4(data) ==
  [j \in 1..((Len(data) + 3) \div 4) |->
     SubSeq(data, 4 * j - 3, IF 4 * j <= Len(data) THEN 4 * j ELSE Len(data))]

\* one round of the BINA loop on a full slice i: xdata & 0x7FFF_FFFF is
\* the word without the top bit of its first byte, xdata & 0x8000_0000 is
\* that top bit
\* a variant that reads the word as two's complement
bina_value_twos(i) ==
  LET lower_31 == (i[1] % 128) * 16777216 + i[2] * 65536 + i[3] * 256 + i[4]
      sign_bit == i[1] \div 128
  IN IF sign_bit # 0 THEN (lower_31 - 2147483647) - 1 ELSE lower_31

bina_value(i) ==
  LET lower_31 == (i[1] % 128) * 16777216 + i[2] * 65536 + i[3] * 256 + i[4]
      sign_bit == i[1] \div 128
  IN IF sign_bit # 0 THEN -lower_31 ELSE lower_31

read_data(f, offset) ==
  LET h == read_head(f, offset)
      cs == chunks4(h.data)
  IN CASE h.chunk_type = TEXT ->
            Ok([family |-> "Data", variant |-> "Text", data |-> h.data], h.pos)
       [] h.chunk_type = BINA ->
            \* i[1], i[2] or i[3] of a short last slice is out of bounds
            IF \E j \in DOMAIN cs : Len(cs[j]) < 4
            THEN Panic("index out of bounds", h.pos)
            ELSE Ok([family |-> "Data", variant |-> "Bina",
                     data |-> [j \in DOMAIN cs |-> bina_value(cs[j])]], h.pos)
       [] OTHER -> Err(invalid_resource(h.chunk_type), h.pos)

\* a variant whose decoders do not seek: they read where the cursor is
read_chunk_noseek(f, p, chunk) ==
  CASE chunk.usage = "Pict" -> read_pict(f, p)
    [] chunk.usage = "Exec" -> Ok([family |-> "Exec", variant |-> "Exec", data |-> <<>>], p)
    [] chunk.usage = "Sound" -> read_sound(f, p)
    [] chunk.usage = "Data" -> read_data(f, p)

\* an Exec entry is answered without touching the file
read_chunk(f, p, chunk) ==
  CASE chunk.usage = "Pict" -> read_pict(f, chunk.start)
    [] chunk.usage = "Exec" -> Ok([family |-> "Exec", variant |-> "Exec", data |-> <<>>], p)
    [] chunk.usage = "Sound" -> read_sound(f, chunk.start)
    [] chunk.usage = "Data" -> read_data(f, chunk.start)

\* ---------------------------------------------------------------- bounds
MaxEntries == 2   \* index records of an archive of the main family
MaxWords == 2     \* words of a BINA payload built from the decode table

\* ------------------------------------------------------- input archives
\* The archives the program is run on are built from a description (the
\* tags, the declared count, the index records and the chunk each record
\* points at), laid out as the program reads them: a 24-byte header, 12
\* bytes per index record, then the chunks.
U32(n) == <<n \div 16777216, (n \div 65536) % 256, (n \div 256) % 256, n % 256>>

RECURSIVE Concat(_)
Concat(ss) == IF ss = <<>> THEN <<>> ELSE Head(ss) \o Concat(Tail(ss))

\* a chunk: its tag, the length L it declares, and the bytes that follow
\* its 8-byte head (fewer than L when the chunk is cut short, more than L
\* when a nested structure follows the payload)
Chunk(tag, len, body) == [tag |-> tag, len |-> len, body |-> body]
ChunkBytes(c) == c.tag \o U32(c.len) \o c.body

XTAG == <<88, 89, 90, 33>>
BadUsage == <<255, 0, 80, 200>>
LowerPict == <<112, 105, 99, 116>>
RIFF == <<82, 73, 70, 70>>
RIDY == <<82, 73, 100, 88>>

Rec(usage, number, c) == [usage |-> usage, number |-> number, chunk |-> c]

PictRecs ==
  { Rec(PICT, 1, Chunk(JPEG, 3, <<11, 12, 13>>)),
    Rec(PICT, 256, Chunk(PNG_, 2, <<21, 22>>)),
    Rec(PICT, 3, Chunk(RECT, 0, U32(8) \o U32(5) \o U32(7))),
    Rec(PICT, 4, Chunk(RECT, 12, U32(8) \o U32(3) \o U32(4))),
    Rec(PICT, 5, Chunk(RECT, 12, U32(8) \o U32(3) \o U32(4)
                                 \o U32(8) \o U32(9) \o U32(10))),
    Rec(PICT, 6, Chunk(RECT, 8, U32(3) \o U32(4))),
    Rec(PICT, 7, Chunk(RECT, 0, U32(9) \o U32(5) \o U32(7))),
    Rec(PICT, 9, Chunk(TEXT, 2, <<32, 33>>)),
    Rec(PICT, 10, Chunk(JPEG, 4, <<14, 15>>)) }

SoundRecs ==
  { Rec(SND_, 65539, Chunk(OGGV, 2, <<41, 42>>)),
    Rec(SND_, 12, Chunk(AIFF, 1, <<43>>)),
    Rec(SND_, 13, Chunk(MOD_, 0, <<>>)),
    Rec(SND_, 14, Chunk(JPEG, 2, <<44, 45>>)),
    Rec(SND_, 15, Chunk(OGGV, 3, <<46>>)) }

DataRecs ==
  { Rec(DATA, 33554437, Chunk(TEXT, 2, <<51, 52>>)),
    Rec(DATA, 22, Chunk(BINA, 8, <<128, 0, 0, 1, 127, 255, 255, 255>>)),
    Rec(DATA, 23, Chunk(BINA, 5, <<0, 0, 0, 2, 61>>)),
    Rec(DATA, 24, Chunk(BINA, 0, <<>>)),
    Rec(DATA, 25, Chunk(XTAG, 1, <<53>>)),
    Rec(DATA, 27, Chunk(BINA, 8, <<0, 0, 0, 3, 56>>)) }

OtherRecs ==
  { Rec(EXEC, 0, Chunk(JPEG, 1, <<71>>)),
    Rec(BadUsage, 32, Chunk(JPEG, 1, <<72>>)) }

ScenarioRecs ==
  { Rec(PICT, 1, Chunk(JPEG, 3, <<11, 12, 13>>)),
    Rec(SND_, 12, Chunk(AIFF, 1, <<43>>)),
    Rec(SND_, 14, Chunk(JPEG, 2, <<44, 45>>)),
    Rec(DATA, 25, Chunk(XTAG, 1, <<53>>)),
    Rec(EXEC, 0, Chunk(JPEG, 1, <<71>>)) }

Recs == PictRecs \cup SoundRecs \cup DataRecs \cup OtherRecs

\* the words of a BINA payload: the decode table, and every combination
\* of the edge bytes
TableWords ==
  { <<0, 0, 0, 1>>, <<128, 0, 0, 1>>, <<127, 255, 255, 255>>,
    <<255, 255, 255, 255>>, <<0, 0, 0, 0>>, <<128, 0, 0, 0>> }
EdgeWords ==
  { <<a, b, c, d>> : a \in {0, 1, 127, 128, 129, 255},
                     b \in {0, 255}, c \in {0, 128}, d \in {0, 1, 255} }

RECURSIVE SeqsUpTo(_, _)
SeqsUpTo(S, n) ==
  IF n = 0 THEN {<<>>}
  ELSE LET shorter == SeqsUpTo(S, n - 1)
       IN shorter \cup { Append(q, x) : q \in {r \in shorter : Len(r) = n - 1}, x \in S }

Input(outer, sub, idx, extra, recs, rev, cut) ==
  [outer |-> outer, sub |-> sub, idx |-> idx, count |-> Len(recs) + extra,
   recs |-> recs, rev |-> rev, cut |-> cut]

\* position of record i's chunk among the chunks, and the chunk sizes
Place(inp, i) == IF inp.rev THEN Len(inp.recs) + 1 - i ELSE i
ChunkAt(inp, j) == inp.recs[Place(inp, j)].chunk

RECURSIVE SizeBefore(_, _)
SizeBefore(inp, j) ==
  IF j <= 1 THEN 0
  ELSE SizeBefore(inp, j - 1) + Len(ChunkBytes(ChunkAt(inp, j - 1)))

DataStart(inp) == 24 + 12 * Len(inp.recs)
OffsetOf(inp, i) == DataStart(inp) + SizeBefore(inp, Place(inp, i))

Whole(inp) ==
  LET n == Len(inp.recs)
      index == Concat([i \in 1..n |->
                 inp.recs[i].usage \o U32(inp.recs[i].number) \o U32(OffsetOf(inp, i))])
      region == Concat([j \in 1..n |-> ChunkBytes(ChunkAt(inp, j))])
      total == 24 + Len(index) + Len(region)
  IN inp.outer \o U32(total - 8) \o inp.sub
     \o inp.idx \o U32(4 + 12 * n) \o U32(inp.count)
     \o index \o region

Build(inp) ==
  IF inp.cut < 0 THEN Whole(inp) ELSE SubSeq(Whole(inp), 1, inp.cut)

MainInputs ==
  { Input(FORM, IFRS, RIDX, 0, recs, FALSE, -1) : recs \in SeqsUpTo(Recs, MaxEntries) }

\* two records whose chunks lie in the opposite order
RevInputs ==
  { Input(FORM, IFRS, RIDX, 0, <<r1, r2>>, TRUE, -1) : r1 \in Recs, r2 \in Recs }

\* three records, good and bad ones, in every combination
ScenarioInputs ==
  { Input(FORM, IFRS, RIDX, 0, <<r1, r2, r3>>, FALSE, -1) :
      r1 \in ScenarioRecs, r2 \in ScenarioRecs, r3 \in ScenarioRecs }

HeaderInputs ==
  { Input(outer, sub, idx, 0, recs, FALSE, -1) :
      outer \in {FORM, RIFF}, sub \in {IFRS, AIFF}, idx \in {RIDX, RIDY},
      recs \in SeqsUpTo({Rec(PICT, 1, Chunk(JPEG, 3, <<11, 12, 13>>)),
                         Rec(LowerPict, 33, Chunk(PNG_, 1, <<73>>))}, 1) }

\* every proper prefix of two one-record archives
CutInputs ==
  UNION { { Input(FORM, IFRS, RIDX, 0, <<r>>, FALSE, cut) :
              cut \in 0..(Len(Whole(Input(FORM, IFRS, RIDX, 0, <<r>>, FALSE, -1))) - 1) } :
          r \in {Rec(SND_, 65539, Chunk(OGGV, 2, <<41, 42>>)),
                 Rec(DATA, 22, Chunk(BINA, 8, <<128, 0, 0, 1, 127, 255, 255, 255>>))} }

CountInputs ==
  { Input(FORM, IFRS, RIDX, 1, recs, FALSE, -1) :
      recs \in SeqsUpTo({Rec(PICT, 1, Chunk(JPEG, 3, <<11, 12, 13>>))}, 1) }

WordInputs ==
  { Input(FORM, IFRS, RIDX, 0, <<Rec(DATA, 2, Chunk(BINA, 4 * Len(ws), Concat(ws)))>>,
          FALSE, -1) :
      ws \in { <<w>> : w \in EdgeWords } \cup SeqsUpTo(TableWords, MaxWords) }

Inputs ==
  MainInputs \cup RevInputs \cup ScenarioInputs \cup HeaderInputs \cup CutInputs
  \cup CountInputs \cup WordInputs

\* ------------------------------------------------------------- the program
VARIABLES
  input,           \* the description the archive was built from (never read by the program)
  file,            \* the bytes of the archive
  pos,             \* the cursor of the one File handle
  pc,              \* where main is
  file_size,       \* main's locals
  ridx_size,
  resource_count,
  toc,
  k,               \* index in toc of the entry the listing loop is at
  results,         \* what read_chunk returned, one record per call, with its argument
  stdout,
  stderr

vars == <<input, file, pos, pc, file_size, ridx_size, resource_count, toc, k,
          results, stdout, stderr>>

Init ==
  /\ input \in Inputs
  /\ file = Build(input)
  /\ pos = 0
  /\ pc = "file_type"
  /\ file_size = 0
  /\ ridx_size = 0
  /\ resource_count = 0
  /\ toc = <<>>
  /\ k = 1
  /\ results = <<>>
  /\ stdout = <<>>
  /\ stderr = <<>>

\* std::process::exit(1) after eprintln!(msg)
Exit1(msg) ==
  /\ stderr' = Append(stderr, msg)
  /\ pc' = "exit1"

\* lines 130-135
CheckFileType ==
  /\ pc = "file_type"
  /\ LET file_type == read_type(file, pos)
         size == read_size(file, file_type.pos)
     IN /\ pos' = size.pos
        /\ file_size' = size.val
        /\ IF file_type.val # FORM
           THEN Exit1(<<"File is not an IFF document">>)
           ELSE pc' = "form_type" /\ UNCHANGED stderr
  /\ UNCHANGED <<input, file, ridx_size, resource_count, toc, k, results, stdout>>

\* a variant of the second check that reads the tag and does not compare it
CheckFormType_unchecked ==
  /\ pc = "form_type"
  /\ pos' = read_type(file, pos).pos
  /\ pc' = "ridx_type"
  /\ UNCHANGED <<input, file, file_size, ridx_size, resource_count, toc, k,
                 results, stdout, stderr>>

\* lines 137-141
CheckFormType ==
  /\ pc = "form_type"
  /\ LET form_type == read_type(file, pos)
     IN /\ pos' = form_type.pos
        /\ IF form_type.val # IFRS
           THEN Exit1(<<"IFF document is not a Blorb file">>)
           ELSE pc' = "ridx_type" /\ UNCHANGED stderr
  /\ UNCHANGED <<input, file, file_size, ridx_size, resource_count, toc, k,
                 results, stdout>>

\* lines 143-147
CheckRidxType ==
  /\ pc = "ridx_type"
  /\ LET ridx_type == read_type(file, pos)
     IN /\ pos' = ridx_type.pos
        /\ IF ridx_type.val # RIDX
           THEN Exit1(<<"Invalid Blorb file">>)
           ELSE pc' = "count" /\ UNCHANGED stderr
  /\ UNCHANGED <<input, file, file_size, ridx_size, resource_count, toc, k,
                 results, stdout>>

\* lines 149-153
ReadResourceCount ==
  /\ pc = "count"
  /\ LET size == read_size(file, pos)
         count == read_size(file, size.pos)
     IN /\ pos' = count.pos
        /\ ridx_size' = size.val
        /\ resource_count' = count.val
        /\ stdout' = Append(stdout, <<"There are", count.val, "entries in the Blorb file">>)
  /\ toc' = <<>>
  /\ pc' = "index"
  /\ UNCHANGED <<input, file, file_size, k, results, stderr>>

\* lines 154-162, one round of the loop: the rounds done so far are the
\* entries pushed so far
ReadIndexEntry ==
  /\ pc = "index"
  /\ Len(toc) < resource_count
  /\ LET r == read_resource_info(file, pos)
     IN /\ pos' = r.pos
        /\ IF r.ok
           THEN toc' = Append(toc, r.chunk) /\ UNCHANGED <<pc, stderr>>
           ELSE Exit1(<<"Invalid Blorb file:", r.err>>) /\ UNCHANGED toc
  /\ UNCHANGED <<input, file, file_size, ridx_size, resource_count, k, results, stdout>>

\* lines 163-165, after the last round
PrintSizes ==
  /\ pc = "index"
  /\ Len(toc) = resource_count
  /\ stdout' = stdout \o << <<"FORM size:", file_size>>, <<"RIDx size:", ridx_size>>,
                           <<"Resources:">> >>
  /\ k' = 1
  /\ pc' = "list"
  /\ UNCHANGED <<input, file, pos, file_size, ridx_size, resource_count, toc,
                 results, stderr>>

\* the line main prints for a decoded resource (the pixel size of an
\* image is the display's business and is left out)
Line(v) ==
  CASE v.variant \in {"Jpeg", "Png"} -> <<v.variant>>
    [] v.variant = "Rect" -> <<"Rect", v.width, v.height>>
    [] v.variant = "Exec" -> <<"TODO">>
    [] v.variant = "Bina" -> <<"Binary", Len(v.data), "words">>
    [] v.variant = "Text" -> <<"Text", Len(v.data), "chars">>
    [] OTHER -> <<v.variant, Len(v.data), "bytes">>

\* a variant whose error arm goes on with the next entry
AfterChunk_continue(r, j, n) == j + 1

\* where the listing loop goes after read_chunk returned r for entry j of
\* n: `Err(_) => break` leaves the loop, every Ok arm goes on
AfterChunk(r, j, n) == IF r.outcome = "Err" THEN n + 1 ELSE j + 1

\* lines 166-197, one round of the loop.  show_image is the display: it
\* succeeds or fails, and its failure is returned from main by `?`.
ListResource ==
  /\ pc = "list"
  /\ k <= Len(toc)
  /\ LET t == toc[k]
         r == read_chunk(file, pos, t)
         head == Append(stdout, DisplayChunkInfo(t))
     IN /\ pos' = r.pos
        /\ results' = Append(results, [entry |-> t, outcome |-> r.outcome, value |-> r.value])
        /\ \E shown \in BOOLEAN :
             LET image == r.outcome = "Ok" /\ r.value.variant \in {"Jpeg", "Png"}
             IN /\ image \/ shown       \* only an image is handed to show_image
                /\ IF r.outcome = "Panic"
                   THEN pc' = "panic" /\ stdout' = head /\ UNCHANGED k
                   ELSE IF image /\ ~shown
                   THEN pc' = "error" /\ stdout' = head /\ UNCHANGED k
                   ELSE /\ stdout' = IF r.outcome = "Ok"
                                     THEN Append(head, Line(r.value)) ELSE head
                        /\ k' = AfterChunk(r, k, Len(toc))
                        /\ UNCHANGED pc
  /\ UNCHANGED <<input, file, file_size, ridx_size, resource_count, toc, stderr>>

\* lines 199-202
WaitForLine ==
  /\ pc = "list"
  /\ k > Len(toc)
  /\ pc' = "done"
  /\ UNCHANGED <<input, file, pos, file_size, ridx_size, resource_count, toc, k,
                 results, stdout, stderr>>

Next ==
  \/ CheckFileType
  \/ CheckFormType
  \/ CheckRidxType
  \/ ReadResourceCount
  \/ ReadIndexEntry
  \/ PrintSizes
  \/ ListResource
  \/ WaitForLine

Spec == Init /\ [][Next]_vars

\* =================================================================
\* Properties.  They are stated on the bytes of the archive and on the
\* description it was built from, never through the readers above.
\* =================================================================
Bytes(o, n) == SubSeq(file, o + 1, o + n)
Present(o, n) == o + n <= Len(file)
BigEndian(b) == ((b[1] * 256 + b[2]) * 256 + b[3]) * 256 + b[4]
UsageTags == {PICT, SND_, DATA, EXEC}
KindOf(tag) ==
  IF tag = PICT THEN "Pict" ELSE IF tag = SND_ THEN "Sound"
  ELSE IF tag = DATA THEN "Data" ELSE "Exec"

OuterOk == Present(0, 4) /\ Bytes(0, 4) = FORM
SubOk == Present(8, 4) /\ Bytes(8, 4) = IFRS
IdxOk == Present(12, 4) /\ Bytes(12, 4) = RIDX
HeaderOk == OuterOk /\ SubOk /\ IdxOk

IndexDone == pc \in {"list", "panic", "error", "done"}

\* the archive is whole up to the end of its index, and each of the N
\* records it declares is there with a recognized usage tag
ValidIndex ==
  /\ HeaderOk
  /\ input.count = Len(input.recs)
  /\ Present(0, 24 + 12 * input.count)
  /\ \A i \in 1..input.count : input.recs[i].usage \in UsageTags

TocEntryOf(i) ==
  [usage |-> KindOf(input.recs[i].usage), number |-> input.recs[i].number,
   start |-> OffsetOf(input, i), data |-> <<>>]

\* C1: with valid FORM/IFRS/RIdx tags and N declared index records that all
\* carry a recognized usage tag, index parsing never fails and ends with a
\* table of contents of exactly N entries, entry i having the kind, number
\* and offset of the i-th record, in order; while it runs the table is a
\* prefix of that; with N = 0 the table stays empty and no chunk is decoded.
C1_TocMatchesIndex ==
  ValidIndex =>
    /\ pc # "exit1"
    /\ Len(toc) <= input.count
    /\ \A i \in 1..Len(toc) : toc[i] = TocEntryOf(i)
    /\ IndexDone => Len(toc) = input.count
    /\ input.count = 0 => results = <<>>

C1_Witness ==
  /\ ValidIndex
  /\ pc = "list"
  /\ Len(toc) >= 2
  /\ toc[1].usage # toc[2].usage
  /\ toc[1].number > 65535

\* the first record of the index whose usage tag is not recognized, 0 when
\* there is none among the declared ones that are in the archive
FirstBad ==
  LET bad == { j \in 1..input.count :
                 Present(12 + 12 * j, 4) /\ Bytes(12 + 12 * j, 4) \notin UsageTags }
  IN IF bad = {} THEN 0 ELSE CHOOSE j \in bad : \A i \in bad : j <= i

RECURSIVE Utf8Decode(_)
Utf8Decode(t) ==
  IF t = <<>> THEN <<>>
  ELSE IF t[1] < 128 THEN <<t[1]>> \o Utf8Decode(Tail(t))
  ELSE IF t[1] < 224
       THEN <<(t[1] - 192) * 64 + (t[2] - 128)>> \o Utf8Decode(Tail(Tail(t)))
       ELSE <<(t[1] - 224) * 4096 + (t[2] - 128) * 64 + (t[3] - 128)>>
            \o Utf8Decode(Tail(Tail(Tail(t))))

\* C2: when a declared index record has a usage tag outside Pict, 'Snd ',
\* Data, Exec, the run never gets past index parsing: it can only end in
\* exit(1), the error then carries exactly the four bytes of the first such
\* tag, and no chunk is ever located or decoded, the recognized records
\* before the bad one included.
C2_BadUsageAborts ==
  (HeaderOk /\ Present(0, 24) /\ FirstBad # 0
     /\ \A i \in 1..(FirstBad - 1) : Present(12 + 12 * i, 12)) =>
    /\ ~IndexDone
    /\ results = <<>>
    /\ Len(toc) < FirstBad
    /\ pc = "exit1" =>
         /\ Len(toc) = FirstBad - 1
         /\ Len(stderr) = 1
         /\ stderr[1][1] = "Invalid Blorb file:"
         /\ stderr[1][2].error = "InvalidResource"
         /\ Utf8Decode(stderr[1][2].text) = Bytes(12 + 12 * FirstBad, 4)

C2_Witness ==
  /\ HeaderOk
  /\ FirstBad = 2
  /\ Bytes(12 + 12 * FirstBad, 4) = BadUsage
  /\ pc = "exit1"
  /\ Len(toc) = 1

\* C3: header validation is fail-fast and ordered.  A wrong outer tag ends
\* the run at the first check, a wrong sub-type tag after a right outer tag
\* ends it at the second with the not-a-Blorb message, a wrong index tag
\* after two right tags ends it at the third with the invalid-file message;
\* in each case nothing of the index has been read, and nothing is listed
\* or decoded.
C3_HeaderFailFast ==
  /\ ~OuterOk =>
       /\ pc \in {"file_type", "exit1"}
       /\ pc = "exit1" => stderr = << <<"File is not an IFF document">> >>
  /\ (OuterOk /\ ~SubOk) =>
       /\ pc \in {"file_type", "form_type", "exit1"}
       /\ pc = "exit1" => stderr = << <<"IFF document is not a Blorb file">> >>
  /\ (OuterOk /\ SubOk /\ ~IdxOk) =>
       /\ pc \in {"file_type", "form_type", "ridx_type", "exit1"}
       /\ pc = "exit1" => stderr = << <<"Invalid Blorb file">> >>
  /\ ~HeaderOk =>
       /\ toc = <<>> /\ results = <<>> /\ stdout = <<>>
       /\ resource_count = 0
       /\ pos <= 16
  /\ (HeaderOk /\ pc = "exit1") => Len(stderr[1]) = 2

C3_Witness ==
  /\ OuterOk /\ ~SubOk /\ ~IdxOk
  /\ pc = "exit1"
  /\ input.recs # <<>>

\* ------------------------------------------------- the chunk of an entry
HeadPresent(e) == Present(e.start, 8)
TagAt(e) == Bytes(e.start, 4)
LenAt(e) == BigEndian(Bytes(e.start + 4, 4))
FullyPresent(e) == HeadPresent(e) /\ Present(e.start + 8, LenAt(e))
PayloadAt(e) == Bytes(e.start + 8, LenAt(e))

\* a 32-bit word given by its bytes, read as sign and magnitude
SignMagnitude(b) ==
  LET magnitude == BigEndian(<<b[1] % 128, b[2], b[3], b[4]>>)
  IN IF b[1] >= 128 THEN 0 - magnitude ELSE magnitude

DecodeTable ==
  { << <<0, 0, 0, 1>>, 1 >>, << <<128, 0, 0, 1>>, -1 >>,
    << <<127, 255, 255, 255>>, 2147483647 >>,
    << <<255, 255, 255, 255>>, -2147483647 >>,
    << <<0, 0, 0, 0>>, 0 >>, << <<128, 0, 0, 0>>, 0 >> }

\* C4: a BINA payload that is fully present and a whole number of words
\* decodes to one integer per word, in payload order, each the
\* sign-magnitude reading of its word: within -2147483647..2147483647, and
\* as the decode table says for the six words of the table.
C4_SignMagnitude ==
  \A j \in 1..Len(results) :
    LET r == results[j]
        e == r.entry
    IN (e.usage = "Data" /\ FullyPresent(e) /\ TagAt(e) = BINA /\ LenAt(e) % 4 = 0) =>
         /\ r.outcome = "Ok"
         /\ r.value.variant = "Bina"
         /\ Len(r.value.data) = LenAt(e) \div 4
         /\ \A m \in 1..Len(r.value.data) :
              LET w == Bytes(e.start + 4 + 4 * m, 4)
              IN /\ r.value.data[m] = SignMagnitude(w)
                 /\ r.value.data[m] >= -2147483647
                 /\ r.value.data[m] <= 2147483647
                 /\ \A row \in DecodeTable : row[1] = w => r.value.data[m] = row[2]

C4_Witness ==
  \E j \in 1..Len(results) :
    /\ results[j].outcome = "Ok"
    /\ results[j].value.variant = "Bina"
    /\ results[j].value.data = <<-2147483647, 0>>
    /\ PayloadAt(results[j].entry) = <<255, 255, 255, 255, 128, 0, 0, 0>>

RawTagsOf(usage) ==
  IF usage = "Pict" THEN {JPEG, PNG_}
  ELSE IF usage = "Sound" THEN {OGGV, AIFF, MOD_}
  ELSE IF usage = "Data" THEN {TEXT} ELSE {}
VariantOf(tag) ==
  IF tag = JPEG THEN "Jpeg" ELSE IF tag = PNG_ THEN "Png"
  ELSE IF tag = OGGV THEN "Ogg" ELSE IF tag = AIFF THEN "Aiff"
  ELSE IF tag = MOD_ THEN "Mod" ELSE "Text"

RawDecoded(r) ==
  /\ r.outcome = "Ok"
  /\ r.value.variant = VariantOf(TagAt(r.entry))
  /\ r.value.data = PayloadAt(r.entry)

\* C5: every entry whose chunk has a raw-payload tag recognized by the
\* decoder of the entry's kind (JPEG, 'PNG ' for Pict; OGGV, AIFF, 'MOD '
\* for 'Snd '; TEXT for Data) and a fully present payload decodes to the
\* variant of that tag with exactly the L bytes at offset+8 .. offset+8+L-1,
\* wherever index parsing or an earlier decode left the cursor.
C5_RawPayloadOfKind ==
  \A j \in 1..Len(results) :
    (FullyPresent(results[j].entry)
       /\ TagAt(results[j].entry) \in RawTagsOf(results[j].entry.usage)) =>
      RawDecoded(results[j])

C5_Witness ==
  /\ Len(results) = 2
  /\ results[2].entry.start < results[1].entry.start
  /\ \A j \in 1..2 :
       /\ FullyPresent(results[j].entry)
       /\ TagAt(results[j].entry) \in RawTagsOf(results[j].entry.usage)
       /\ PayloadAt(results[j].entry) # <<>>
  /\ results[1].value.variant = "Text"
  /\ results[2].value.variant = "Ogg"

\* C6: the listing attempts the entries in table order; when decoding
\* entry j fails (read_chunk returns an error, or a decoder panics), every
\* entry before j was decoded and its line printed, entry j has the failure
\* as its outcome and no line, and the listing is over: no entry after j is
\* located or decoded.
C6_StopAtFirstError ==
  /\ Len(results) <= Len(toc)
  /\ \A j \in 1..Len(results) : results[j].entry = toc[j]
  /\ \A j \in 1..Len(results) :
       results[j].outcome # "Ok" =>
         /\ j = Len(results)
         /\ IF results[j].outcome = "Err"
            THEN pc \in {"list", "done"} /\ k > Len(toc)
            ELSE pc = "panic"
         /\ Len(stdout) = 4 + 2 * (j - 1) + 1
         /\ stdout[Len(stdout)] = DisplayChunkInfo(toc[j])
         /\ \A i \in 1..(j - 1) :
              /\ results[i].outcome = "Ok"
              /\ stdout[4 + 2 * i - 1] = DisplayChunkInfo(toc[i])
              /\ stdout[4 + 2 * i] = Line(results[i].value)

C6_Witness ==
  /\ Len(toc) = 3
  /\ Len(results) = 2
  /\ results[1].outcome = "Ok"
  /\ results[2].outcome = "Err"
  /\ pc = "done"

Unrecognized(r) ==
  /\ r.outcome = "Err"
  /\ r.value.error = "InvalidResource"
  /\ Utf8Decode(r.value.text) = TagAt(r.entry)

\* C7: a Pict entry whose chunk tag is none of JPEG, 'PNG ', Rect has an
\* unrecognized-tag error carrying that tag as its outcome, as a 'Snd ' or
\* a Data entry with a tag unknown to its decoder has.
C7_PictUnknownTagIsError ==
  \A j \in 1..Len(results) :
    (results[j].entry.usage = "Pict" /\ HeadPresent(results[j].entry)
       /\ TagAt(results[j].entry) \notin {JPEG, PNG_, RECT}) =>
      Unrecognized(results[j])

\* C8: a chunk that declares more payload bytes than the archive has left
\* after its 8-byte head fails with TruncatedChunk; it is never decoded.
\* (Stated for the chunks whose tag the decoder of the entry's kind takes as
\* a payload, so that the only thing wrong with the chunk is its length.)
C8_ShortChunkIsError ==
  \A j \in 1..Len(results) :
    LET e == results[j].entry
    IN (HeadPresent(e)
          /\ TagAt(e) \in RawTagsOf(e.usage) \cup (IF e.usage = "Data" THEN {BINA} ELSE {})
          /\ ~Present(e.start + 8, LenAt(e))) =>
         /\ results[j].outcome = "Err"
         /\ results[j].value.error = "TruncatedChunk"

\* C9: a Pict entry whose chunk tag is Rect, with the sub-length 8 in the
\* four bytes after the outer length field, gives PlaceholderRect with the
\* width and height of the two fields after the sub-length, for every outer
\* length L.
C9_RectAfterLengthField ==
  \A j \in 1..Len(results) :
    LET e == results[j].entry
    IN (e.usage = "Pict" /\ Present(e.start, 20) /\ TagAt(e) = RECT
          /\ BigEndian(Bytes(e.start + 8, 4)) = 8) =>
         /\ results[j].outcome = "Ok"
         /\ results[j].value.variant = "Rect"
         /\ results[j].value.width = BigEndian(Bytes(e.start + 12, 4))
         /\ results[j].value.height = BigEndian(Bytes(e.start + 16, 4))

\* C10: a Data entry whose chunk tag is BINA and whose payload length is no
\* multiple of 4 fails with MalformedBinaryData; the program does not abort.
C10_OddBinaIsError ==
  \A j \in 1..Len(results) :
    (results[j].entry.usage = "Data" /\ HeadPresent(results[j].entry)
       /\ TagAt(results[j].entry) = BINA /\ LenAt(results[j].entry) % 4 # 0) =>
      /\ results[j].outcome = "Err"
      /\ results[j].value.error = "MalformedBinaryData"

====
